---- MODULE Spec2Model ----
(***************************************************************************)
(* Model of the Autotune module of the flight firmware                     *)
(* (flight/modules/Autotune/autotune.c): module initialisation and start,  *)
(* the AutotuneTask control loop with its flight-mode gate and phase       *)
(* machine, and update_stabilization_settings (relay-tuning math and       *)
(* persistence policy).                                                    *)
(*                                                                         *)
(* One step of GatedPass or PhasePass is one pass through the body of      *)
(* while (1), from PIOS_WDG_UpdateFlag to the vTaskDelay that ends it; the *)
(* clock is read once per pass.  The values                                *)
(* the UAVObject getters return are inputs of the pass; the locals that    *)
(* receive them are kept as state so that properties can speak about what  *)
(* the pass read.  Floats are fixed-point integers (see Scale).            *)
(***************************************************************************)
EXTENDS Integers, Sequences, FiniteSets, TLC

VARIABLES
    pc,                    \* module life cycle: boot, initialized, started, running
    autotuneEnabled,       \* static bool autotuneEnabled
    optionalModules,       \* local optionalModules[] of AutotuneInitialize (the AUTOTUNE element)
    startLog,              \* calls made by AutotuneStart
    state,                 \* enum AUTOTUNE_STATE state
    lastUpdateTime,        \* portTickType lastUpdateTime
    tickCount,             \* the scheduler clock, what xTaskGetTickCount() returns
    sinceEntry,            \* true ticks elapsed since lastUpdateTime was recorded
    trail,                 \* the phases left since the last gated pass or pass in AT_INIT
    flightStatus,          \* local FlightStatusData of the last pass
    manualControl,         \* local ManualControlCommandData of the last pass
    relaySettings,         \* local RelayTuningSettingsData of the last pass (Mode)
    relayTuning,           \* local RelayTuningData of update_stabilization_settings
    updateSettings,        \* local RelayTuningSettingsData of update_stabilization_settings (Behavior)
    diffTime,              \* local portTickType diffTime of the last pass
    StabilizationDesired,  \* the StabilizationDesired UAVObject
    StabilizationSettings, \* the StabilizationSettings UAVObject (in memory)
    savedSettings,         \* the StabilizationSettings record in durable storage
    dispatchState,         \* value of state at the switch of the last pass
    calls,                 \* API calls of the last pass, in order
    delay,                 \* argument of the vTaskDelay that ended the last pass
    ticks                  \* number of passes through the loop so far

vars == <<pc, autotuneEnabled, optionalModules, startLog, state, lastUpdateTime, tickCount,
          sinceEntry, trail, flightStatus, manualControl, relaySettings, relayTuning,
          updateSettings, diffTime, StabilizationDesired, StabilizationSettings, savedSettings,
          dispatchState, calls, delay, ticks>>

(***************************************************************************)
(* Bounds of the model                                                     *)
(***************************************************************************)
MaxTicks == 9          \* passes through the loop explored
TickBits == 16          \* width of portTickType

TickWrap == 2 ^ TickBits

(***************************************************************************)
(* Program constants                                                       *)
(***************************************************************************)
PREPARE_TIME == 2000
MEAURE_TIME == 30000
GATE_DELAY == 50
LOOP_DELAY == 10

AUTOTUNE_STATE == {"AT_INIT", "AT_START", "AT_ROLL", "AT_PITCH", "AT_FINISHED", "AT_SET"}

\* Fixed-point unit of the float values of the gains: 1.0 is Scale.
Scale == 100 * 100
\* M_PI in units of 1/Scale
M_PI == 31416

(***************************************************************************)
(* Values the getters can return                                           *)
(***************************************************************************)
NotRead == [unread |-> TRUE]
\* diffTime in a pass that does not assign it
NoDiff == 0 - 1

FlightModes == {"AUTOTUNE", "MANUAL"}
ArmedValues == {"DISARMED", "ARMING", "ARMED"}
FlightStatusValues ==
    [FlightMode : {"AUTOTUNE"}, Armed : ArmedValues]
        \cup [FlightMode : {"MANUAL"}, Armed : {"DISARMED", "ARMED"}]

\* stick positions in percent of full deflection
ManualControlValues ==
    { [Roll |->  50, Pitch |-> -40, Yaw |->  30, Throttle |-> 60],
      [Roll |-> -20, Pitch |->  10, Yaw |-> -70, Throttle |-> 0] }

RelayModes == {"RATE", "ATTITUDE"}
Behaviors == {"MEASURE", "COMPUTE", "SAVE"}
\* AutotuneTask uses only Mode of its copy, update_stabilization_settings only
\* Behavior of its own
LoopSettingsValues == [Mode : RelayModes]
UpdateSettingsValues == [Behavior : Behaviors]

\* Period in ms, Gain in units of 1/Scale; index 1 is roll, 2 is pitch
RelayTuningValues ==
    { [Period |-> <<500, 400>>, Gain |-> <<3000, 2500>>],
      [Period |-> <<250, 800>>, Gain |-> <<5000, 3000>>] }

InitialSettings ==
    [ ManualRate   |-> [Roll |-> 150, Pitch |-> 140, Yaw |-> 130],
      RollMax      |-> 55,
      PitchMax     |-> 45,
      RollRatePID  |-> [Kp |-> 20, Ki |-> 30],
      PitchRatePID |-> [Kp |-> 21, Ki |-> 31],
      RollPI       |-> [Kp |-> 22, Ki |-> 32],
      PitchPI      |-> [Kp |-> 23, Ki |-> 33] ]

InitialDesired ==
    [ StabilizationMode |-> [Roll |-> "ATTITUDE", Pitch |-> "ATTITUDE", Yaw |-> "RATE"],
      Roll |-> 0, Pitch |-> 0, Yaw |-> 0, Throttle |-> 0 ]


(***************************************************************************)
(* Scheduler clock                                                         *)
(***************************************************************************)
\* unsigned subtraction of two portTickType values
TickDiff_signed(now, last) == now - last
TickDiff(now, last) == (now - last + TickWrap) % TickWrap

\* Ticks that can pass from one pass of the loop to the next: vTaskDelay(d)
\* blocks for d ticks; a task kept from running by higher-priority tasks
\* wakes later.  Late wake-ups are explored where the next pass reads the
\* elapsed time, that is when it starts in a timed state.
TimedStates == {"AT_START", "AT_ROLL", "AT_PITCH"}
LateWake == {MEAURE_TIME}
Elapse(d, nxt, late) == IF nxt \in TimedStates THEN {d} \cup late ELSE {d}

(***************************************************************************)
(* AutotuneTask: the gate and the record computed before the switch        *)
(***************************************************************************)
\* if (flightStatus.FlightMode != FLIGHTSTATUS_FLIGHTMODE_AUTOTUNE)
GateClosed(fs) == fs.FlightMode # "AUTOTUNE"

\* state = AT_INIT in the gated branch
GatedState_keeps(st) == st
GatedState_keepsset(st) == IF st = "AT_SET" THEN "AT_SET" ELSE "AT_INIT"
GatedState(st) == "AT_INIT"

\* bool rate = relaySettings.Mode == RELAYTUNINGSETTINGS_MODE_RATE
rate_latched(rs) == TRUE
rate(rs) == rs.Mode = "RATE"

NormalMode(r) == IF r THEN "RATE" ELSE "ATTITUDE"
RelayMode_rateonly(r) == "RELAYRATE"
RelayMode(r) == IF r THEN "RELAYRATE" ELSE "RELAYATTITUDE"

\* stabDesired.StabilizationMode[YAW] = RATE; stabDesired.Yaw = ...
YawDesired_rollscale(sd, mc, ss) ==
    [sd EXCEPT !.StabilizationMode.Yaw = "RATE",
               !.Yaw = mc.Yaw * ss.ManualRate.Roll]
YawDesired(sd, mc, ss) ==
    [sd EXCEPT !.StabilizationMode.Yaw = "RATE",
               !.Yaw = mc.Yaw * ss.ManualRate.Yaw]

\* the if (rate) ... else ... that sets roll and pitch
RollPitchDesired(sd, mc, ss, r) ==
    IF r
    THEN [sd EXCEPT !.StabilizationMode.Roll = "RATE",
                    !.StabilizationMode.Pitch = "RATE",
                    !.Roll = mc.Roll * ss.ManualRate.Roll,
                    !.Pitch = mc.Pitch * ss.ManualRate.Pitch]
    ELSE [sd EXCEPT !.StabilizationMode.Roll = "ATTITUDE",
                    !.StabilizationMode.Pitch = "ATTITUDE",
                    !.Roll = mc.Roll * ss.RollMax,
                    !.Pitch = mc.Pitch * ss.PitchMax]

\* the local stabDesired when the switch is entered
NormalDesired(sd, mc, ss, r) ==
    [YawDesired(RollPitchDesired(sd, mc, ss, r), mc, ss) EXCEPT !.Throttle = mc.Throttle]

(***************************************************************************)
(* AutotuneTask: the cases of switch (state).  Each yields the new state   *)
(* and lastUpdateTime, the diffTime it computed, the local stabDesired     *)
(* after its overrides and whether it called update_stabilization_settings.*)
(***************************************************************************)
\* if (flightStatus.Armed == FLIGHTSTATUS_ARMED_ARMED && stabDesired.Throttle > 0)
StartGuard_arming(fs, sd) == fs.Armed # "DISARMED" /\ sd.Throttle > 0
StartGuard(fs, sd) == fs.Armed = "ARMED" /\ sd.Throttle > 0

\* if (flightStatus.Armed == FLIGHTSTATUS_ARMED_DISARMED && stabDesired.Throttle <= 0)
CommitGuard(fs, sd) == fs.Armed = "DISARMED" /\ sd.Throttle <= 0

\* if (diffTime > PREPARE_TIME)
PrepareElapsed_early(d) == d > 0
PrepareElapsed(d) == d > PREPARE_TIME

\* if (diffTime > MEAURE_TIME) of case AT_ROLL
RollElapsed(d) == d > MEAURE_TIME

\* if (diffTime > MEAURE_TIME) of case AT_PITCH
PitchElapsed(d) == d > MEAURE_TIME

CaseInit_nostamp(fs, sd, r, now, last) ==
    [ state          |-> IF StartGuard(fs, sd) THEN "AT_START" ELSE "AT_INIT",
      lastUpdateTime |-> last,
      diffTime       |-> NoDiff,
      stabDesired    |-> sd,
      update         |-> FALSE ]
CaseInit(fs, sd, r, now, last) ==
    [ state          |-> IF StartGuard(fs, sd) THEN "AT_START" ELSE "AT_INIT",
      lastUpdateTime |-> now,
      diffTime       |-> NoDiff,
      stabDesired    |-> sd,
      update         |-> FALSE ]

CaseStart_relays(fs, sd, r, now, last) ==
    LET d == TickDiff(now, last) IN
    [ state          |-> IF PrepareElapsed(d) THEN "AT_ROLL" ELSE "AT_START",
      lastUpdateTime |-> IF PrepareElapsed(d) THEN now ELSE last,
      diffTime       |-> d,
      stabDesired    |-> [sd EXCEPT !.StabilizationMode.Roll = RelayMode(r)],
      update         |-> FALSE ]
CaseStart_skips(fs, sd, r, now, last) ==
    LET d == TickDiff(now, last) IN
    [ state          |-> IF PrepareElapsed(d) THEN "AT_PITCH" ELSE "AT_START",
      lastUpdateTime |-> IF PrepareElapsed(d) THEN now ELSE last,
      diffTime       |-> d,
      stabDesired    |-> sd,
      update         |-> FALSE ]
CaseStart(fs, sd, r, now, last) ==
    LET d == TickDiff(now, last) IN
    [ state          |-> IF PrepareElapsed(d) THEN "AT_ROLL" ELSE "AT_START",
      lastUpdateTime |-> IF PrepareElapsed(d) THEN now ELSE last,
      diffTime       |-> d,
      stabDesired    |-> sd,
      update         |-> FALSE ]

CaseRoll_rechecks(fs, sd, r, now, last) ==
    LET d == TickDiff(now, last) IN
    IF StartGuard(fs, sd)
    THEN [ state          |-> IF RollElapsed(d) THEN "AT_PITCH" ELSE "AT_ROLL",
           lastUpdateTime |-> IF RollElapsed(d) THEN now ELSE last,
           diffTime       |-> d,
           stabDesired    |-> [sd EXCEPT !.StabilizationMode.Roll = RelayMode(r)],
           update         |-> FALSE ]
    ELSE [ state          |-> "AT_INIT",
           lastUpdateTime |-> last,
           diffTime       |-> d,
           stabDesired    |-> sd,
           update         |-> FALSE ]
CaseRoll(fs, sd, r, now, last) ==
    LET d == TickDiff(now, last) IN
    [ state          |-> IF RollElapsed(d) THEN "AT_PITCH" ELSE "AT_ROLL",
      lastUpdateTime |-> IF RollElapsed(d) THEN now ELSE last,
      diffTime       |-> d,
      stabDesired    |-> [sd EXCEPT !.StabilizationMode.Roll = RelayMode(r)],
      update         |-> FALSE ]

CasePitch_nocommand(fs, sd, r, now, last) ==
    LET d == TickDiff(now, last) IN
    [ state          |-> IF PitchElapsed(d) THEN "AT_FINISHED" ELSE "AT_PITCH",
      lastUpdateTime |-> IF PitchElapsed(d) THEN now ELSE last,
      diffTime       |-> d,
      stabDesired    |-> [sd EXCEPT !.StabilizationMode.Pitch = RelayMode(r),
                                    !.Pitch = 0],
      update         |-> FALSE ]

CasePitch_bothaxes(fs, sd, r, now, last) ==
    LET d == TickDiff(now, last) IN
    [ state          |-> IF PitchElapsed(d) THEN "AT_FINISHED" ELSE "AT_PITCH",
      lastUpdateTime |-> IF PitchElapsed(d) THEN now ELSE last,
      diffTime       |-> d,
      stabDesired    |-> [sd EXCEPT !.StabilizationMode.Pitch = RelayMode(r),
                                    !.StabilizationMode.Roll = RelayMode(r)],
      update         |-> FALSE ]

CasePitch(fs, sd, r, now, last) ==
    LET d == TickDiff(now, last) IN
    [ state          |-> IF PitchElapsed(d) THEN "AT_FINISHED" ELSE "AT_PITCH",
      lastUpdateTime |-> IF PitchElapsed(d) THEN now ELSE last,
      diffTime       |-> d,
      stabDesired    |-> [sd EXCEPT !.StabilizationMode.Pitch = RelayMode(r)],
      update         |-> FALSE ]

CaseFinished_commits(fs, sd, r, now, last) ==
    [ state          |-> IF CommitGuard(fs, sd) THEN "AT_INIT" ELSE "AT_FINISHED",
      lastUpdateTime |-> last,
      diffTime       |-> NoDiff,
      stabDesired    |-> sd,
      update         |-> CommitGuard(fs, sd) ]
CaseFinished(fs, sd, r, now, last) ==
    [ state          |-> IF CommitGuard(fs, sd) THEN "AT_SET" ELSE "AT_FINISHED",
      lastUpdateTime |-> last,
      diffTime       |-> NoDiff,
      stabDesired    |-> sd,
      update         |-> FALSE ]

CaseSet_finished(fs, sd, r, now, last) ==
    [ state          |-> "AT_FINISHED",
      lastUpdateTime |-> last,
      diffTime       |-> NoDiff,
      stabDesired    |-> sd,
      update         |-> TRUE ]
CaseSet_stays(fs, sd, r, now, last) ==
    [ state          |-> "AT_SET",
      lastUpdateTime |-> last,
      diffTime       |-> NoDiff,
      stabDesired    |-> sd,
      update         |-> TRUE ]
CaseSet(fs, sd, r, now, last) ==
    [ state          |-> "AT_INIT",
      lastUpdateTime |-> last,
      diffTime       |-> NoDiff,
      stabDesired    |-> sd,
      update         |-> TRUE ]

\* switch (state)
Switch(st, fs, sd, r, now, last) ==
    CASE st = "AT_INIT"     -> CaseInit(fs, sd, r, now, last)
      [] st = "AT_START"    -> CaseStart(fs, sd, r, now, last)
      [] st = "AT_ROLL"     -> CaseRoll(fs, sd, r, now, last)
      [] st = "AT_PITCH"    -> CasePitch(fs, sd, r, now, last)
      [] st = "AT_FINISHED" -> CaseFinished(fs, sd, r, now, last)
      [] st = "AT_SET"      -> CaseSet(fs, sd, r, now, last)


(***************************************************************************)
(* update_stabilization_settings                                           *)
(***************************************************************************)
\* a float constant written as a quotient, and a product with it
gain_ratio_r == [num |-> 1, den |-> 3]
zero_ratio_r == [num |-> 1, den |-> 3]
gain_ratio_p == [num |-> 1, den |-> 5]
zero_ratio_p == [num |-> 1, den |-> 5]

Times(x, q) == (x * q.num) \div q.den

AxisGains_outerthird(rt, i) ==
    LET wu  == (1000 * 2 * M_PI) \div rt.Period[i]
        wc  == Times(wu, gain_ratio_r)
        zc  == Times(wc, zero_ratio_r)
        kpu == (((4 * Scale * Scale) \div M_PI) * Scale) \div rt.Gain[i]
        kp  == Times(kpu, gain_ratio_r)
        ki  == (zc * kp) \div Scale
        wc2 == Times(wc, gain_ratio_r)
        kp2 == wc2
        ki2 == (Times(wc2, zero_ratio_r) * kp2) \div Scale
    IN  [kp |-> kp, ki |-> ki, kp2 |-> kp2, ki2 |-> ki2]

\* the body of for (i = 0; i < 2; i++) up to the switch: the four gains of
\* axis i (1 roll, 2 pitch), in units of 1/Scale
AxisGains(rt, i) ==
    LET wu  == (1000 * 2 * M_PI) \div rt.Period[i]
        wc  == Times(wu, gain_ratio_r)
        zc  == Times(wc, zero_ratio_r)
        kpu == (((4 * Scale * Scale) \div M_PI) * Scale) \div rt.Gain[i]
        kp  == Times(kpu, gain_ratio_r)
        ki  == (zc * kp) \div Scale
        wc2 == Times(wc, gain_ratio_p)
        kp2 == wc2
        ki2 == (Times(wc2, zero_ratio_p) * kp2) \div Scale
    IN  [kp |-> kp, ki |-> ki, kp2 |-> kp2, ki2 |-> ki2]

ComputedSettings_accumulates(rt, ss) ==
    LET r == AxisGains(rt, 1)
        p == AxisGains(rt, 2)
    IN  [ss EXCEPT !.RollRatePID.Kp = r.kp,  !.RollRatePID.Ki = ss.RollRatePID.Ki + r.ki,
                   !.RollPI.Kp = r.kp2,      !.RollPI.Ki = r.ki2,
                   !.PitchRatePID.Kp = p.kp, !.PitchRatePID.Ki = ss.PitchRatePID.Ki + p.ki,
                   !.PitchPI.Kp = p.kp2,     !.PitchPI.Ki = p.ki2]

\* the local stabSettings after the for loop
ComputedSettings(rt, ss) ==
    LET r == AxisGains(rt, 1)
        p == AxisGains(rt, 2)
    IN  [ss EXCEPT !.RollRatePID.Kp = r.kp,  !.RollRatePID.Ki = r.ki,
                   !.RollPI.Kp = r.kp2,      !.RollPI.Ki = r.ki2,
                   !.PitchRatePID.Kp = p.kp, !.PitchRatePID.Ki = p.ki,
                   !.PitchPI.Kp = p.kp2,     !.PitchPI.Ki = p.ki2]

\* switch (relaySettings.Behavior): the calls it makes
BehaviorCalls_retry(behavior) ==
    CASE behavior = "MEASURE" -> << >>
      [] behavior = "COMPUTE" -> <<"StabilizationSettingsSet">>
      [] behavior = "SAVE"    -> <<"StabilizationSettingsSet", "UAVObjSave", "UAVObjSave">>
BehaviorCalls_nobreak(behavior) ==
    CASE behavior = "MEASURE" -> << >>
      [] behavior = "COMPUTE" -> <<"StabilizationSettingsSet",
                                   "StabilizationSettingsSet", "UAVObjSave">>
      [] behavior = "SAVE"    -> <<"StabilizationSettingsSet", "UAVObjSave">>
BehaviorCalls(behavior) ==
    CASE behavior = "MEASURE" -> << >>
      [] behavior = "COMPUTE" -> <<"StabilizationSettingsSet">>
      [] behavior = "SAVE"    -> <<"StabilizationSettingsSet", "UAVObjSave">>

\* The whole function: the StabilizationSettings object and the durable record
\* after it, and its calls.  saveOk is the outcome of UAVObjSave.
update_stabilization_settings(rt, rs, obj, saved, saveOk) ==
    LET new == ComputedSettings(rt, obj)
        cs  == BehaviorCalls(rs.Behavior)
        set == \E k \in 1..Len(cs) : cs[k] = "StabilizationSettingsSet"
        sav == \E k \in 1..Len(cs) : cs[k] = "UAVObjSave"
        mem == IF set THEN new ELSE obj
    IN  [ settings |-> mem,
          saved    |-> IF sav /\ saveOk THEN mem ELSE saved,
          calls    |-> <<"RelayTuningGet", "RelayTuningSettingsGet",
                         "StabilizationSettingsGet">> \o cs ]

(***************************************************************************)
(* Initial state and module life cycle                                     *)
(***************************************************************************)
Init ==
    /\ pc = "boot"
    /\ autotuneEnabled = FALSE
    /\ optionalModules = NotRead
    /\ startLog = << >>
    /\ state = "AT_INIT"
    /\ lastUpdateTime = 0
    /\ tickCount = 0
    /\ sinceEntry = 0
    /\ trail = << >>
    /\ flightStatus = NotRead
    /\ manualControl = NotRead
    /\ relaySettings = NotRead
    /\ relayTuning = NotRead
    /\ updateSettings = NotRead
    /\ diffTime = NoDiff
    /\ StabilizationDesired = InitialDesired
    /\ StabilizationSettings = InitialSettings
    /\ savedSettings = InitialSettings
    /\ dispatchState = "none"
    /\ calls = << >>
    /\ delay = 0
    /\ ticks = 0

\* the values HwSettingsOptionalModulesGet can return for the AUTOTUNE element
OptionalModuleValues == [Autotune : {"ENABLED", "DISABLED"}]

\* the flag AutotuneInitialize assigns; om is NotRead in a build with
\* MODULE_AUTOTUNE_BUILTIN, which does not read HwSettings
EnabledFlag(om) == om = NotRead \/ om.Autotune = "ENABLED"

\* the calls of AutotuneStart
StartCalls_unconditional(enabled) ==
    <<"xTaskCreate", "PIOS_TASK_MONITOR_RegisterTask", "PIOS_WDG_RegisterFlag">>
StartCalls(enabled) ==
    IF enabled
    THEN <<"xTaskCreate", "PIOS_TASK_MONITOR_RegisterTask", "PIOS_WDG_RegisterFlag">>
    ELSE << >>

AutotuneInitialize ==
    /\ pc = "boot"
    /\ \E om \in OptionalModuleValues \cup {NotRead} :
          /\ optionalModules' = om
          /\ autotuneEnabled' = EnabledFlag(om)
    /\ pc' = "initialized"
    /\ UNCHANGED <<startLog, state, lastUpdateTime, tickCount, sinceEntry, trail,
                   flightStatus, manualControl, relaySettings, relayTuning,
                   updateSettings, diffTime, StabilizationDesired, StabilizationSettings,
                   savedSettings, dispatchState, calls, delay, ticks>>

\* optionalModules is a local of AutotuneInitialize and is gone by now
AutotuneStart ==
    /\ pc = "initialized"
    /\ pc' = "started"
    /\ startLog' = StartCalls(autotuneEnabled)
    /\ optionalModules' = NotRead
    /\ UNCHANGED <<autotuneEnabled, state, lastUpdateTime, tickCount, sinceEntry, trail,
                   flightStatus, manualControl, relaySettings, relayTuning,
                   updateSettings, diffTime, StabilizationDesired, StabilizationSettings,
                   savedSettings, dispatchState, calls, delay, ticks>>

\* AutotuneTask up to while (1): the task runs at some tick t0 after boot
TaskEntry ==
    /\ pc = "started"
    /\ Len(startLog) > 0
    /\ pc' = "running"
    /\ state' = "AT_INIT"
    /\ lastUpdateTime' = tickCount
    /\ tickCount' = tickCount
    /\ sinceEntry' = 0
    /\ UNCHANGED <<autotuneEnabled, optionalModules, startLog, trail, flightStatus, manualControl,
                   relaySettings, relayTuning, updateSettings, diffTime, StabilizationDesired,
                   StabilizationSettings, savedSettings, dispatchState, calls,
                   delay, ticks>>

(***************************************************************************)
(* AutotuneTask: one pass through while (1)                                *)
(***************************************************************************)
\* while (1): the condition under which the body runs again
WhileCondition_once == FALSE
WhileCondition == TRUE

\* where control is after one pass through the body
AfterPass == IF WhileCondition THEN "running" ELSE "returned"

\* the calls of a pass that takes the gated branch, in order
GatedCalls_nowdg == <<"FlightStatusGet", "vTaskDelay">>
GatedCalls == <<"PIOS_WDG_UpdateFlag", "FlightStatusGet", "vTaskDelay">>

\* the calls of a pass that reaches the switch; inner are those of its case
PassCalls_earlywrite(inner) ==
    <<"PIOS_WDG_UpdateFlag", "FlightStatusGet", "StabilizationDesiredGet",
      "StabilizationSettingsGet", "ManualControlSettingsGet",
      "ManualControlCommandGet", "RelayTuningSettingsGet",
      "StabilizationDesiredSet">>
        \o inner \o <<"vTaskDelay">>
PassCalls(inner) ==
    <<"PIOS_WDG_UpdateFlag", "FlightStatusGet", "StabilizationDesiredGet",
      "StabilizationSettingsGet", "ManualControlSettingsGet",
      "ManualControlCommandGet", "RelayTuningSettingsGet">>
        \o inner \o <<"StabilizationDesiredSet", "vTaskDelay">>

\* the branch taken when the flight mode is not AUTOTUNE
GatedPass ==
    /\ pc = "running"
    /\ ticks < MaxTicks
    /\ \E fs \in FlightStatusValues, e \in Elapse(GATE_DELAY, GatedState(state), LateWake) :
          /\ GateClosed(fs)
          /\ flightStatus' = fs
          /\ state' = GatedState(state)
          /\ tickCount' = (tickCount + e) % TickWrap
          /\ sinceEntry' = sinceEntry + e
    /\ dispatchState' = "none"
    /\ trail' = << >>
    /\ manualControl' = NotRead
    /\ relaySettings' = NotRead
    /\ relayTuning' = NotRead
    /\ updateSettings' = NotRead
    /\ diffTime' = NoDiff
    /\ calls' = GatedCalls
    /\ delay' = GATE_DELAY
    /\ ticks' = ticks + 1
    /\ pc' = AfterPass
    /\ UNCHANGED <<autotuneEnabled, optionalModules, startLog, lastUpdateTime,
                   StabilizationDesired, StabilizationSettings, savedSettings>>

\* What a pass that leaves phase st saw: the arm state and throttle that
\* cases AT_INIT and AT_FINISHED test, and whether the true time spent in a
\* timed phase exceeds its threshold.
Threshold(st) == IF st = "AT_START" THEN PREPARE_TIME ELSE MEAURE_TIME

TrailEntry(st, fs, mc, since) ==
    [ phase    |-> st,
      armed    |-> IF st \in {"AT_INIT", "AT_FINISHED"} THEN fs.Armed ELSE "untested",
      throttle |-> IF st \in {"AT_INIT", "AT_FINISHED"}
                   THEN (IF mc.Throttle > 0 THEN "positive" ELSE "none")
                   ELSE "untested",
      complete |-> st \in TimedStates => since > Threshold(st) ]

\* a pass in AT_INIT begins a new trail; a pass that changes state adds the
\* phase it leaves
NextTrail(tr, st, nxt, fs, mc, since) ==
    LET base == IF st = "AT_INIT" THEN << >> ELSE tr
    IN  IF nxt # st THEN Append(base, TrailEntry(st, fs, mc, since)) ELSE base

\* the trail of a session that ran from AT_INIT to AT_SET
CompleteSession ==
    << [phase |-> "AT_INIT", armed |-> "ARMED", throttle |-> "positive", complete |-> TRUE],
       [phase |-> "AT_START", armed |-> "untested", throttle |-> "untested", complete |-> TRUE],
       [phase |-> "AT_ROLL", armed |-> "untested", throttle |-> "untested", complete |-> TRUE],
       [phase |-> "AT_PITCH", armed |-> "untested", throttle |-> "untested", complete |-> TRUE],
       [phase |-> "AT_FINISHED", armed |-> "DISARMED", throttle |-> "none", complete |-> TRUE] >>

\* the passes that execute lastUpdateTime = xTaskGetTickCount(): every pass in
\* AT_INIT and the passes that leave AT_START, AT_ROLL or AT_PITCH
Stamped(st, nxt) ==
    \/ st = "AT_INIT"
    \/ st \in {"AT_START", "AT_ROLL", "AT_PITCH"} /\ nxt # st

\* The rest of the body: reads, the normal record, the switch, the write.
\* FS and MC are the values FlightStatusGet and ManualControlCommandGet can
\* return, late the late wake-ups explored; a bounded pass counts against
\* MaxTicks.
Pass(FS, MC, late, bounded) ==
    /\ pc = "running"
    /\ bounded => ticks < MaxTicks
    /\ \E fs \in FS, mc \in MC, rs \in LoopSettingsValues :
          /\ ~GateClosed(fs)
          /\ LET sd  == NormalDesired(StabilizationDesired, mc,
                                      StabilizationSettings, rate(rs))
                 res == Switch(state, fs, sd, rate(rs), tickCount, lastUpdateTime)
             IN  /\ flightStatus' = fs
                 /\ manualControl' = mc
                 /\ relaySettings' = rs
                 /\ state' = res.state
                 /\ lastUpdateTime' = res.lastUpdateTime
                 /\ diffTime' = res.diffTime
                 /\ StabilizationDesired' = res.stabDesired
                 /\ trail' = NextTrail(trail, state, res.state, fs, mc, sinceEntry)
                 /\ \E e \in Elapse(LOOP_DELAY, res.state, late) :
                       /\ sinceEntry' = (IF Stamped(state, res.state) THEN 0 ELSE sinceEntry) + e
                       /\ tickCount' = (tickCount + e) % TickWrap
                 /\ IF res.update
                    THEN \E rt \in RelayTuningValues, rs2 \in UpdateSettingsValues,
                            saveOk \in BOOLEAN :
                            LET u == update_stabilization_settings(
                                         rt, rs2, StabilizationSettings,
                                         savedSettings, saveOk)
                            IN  /\ relayTuning' = rt
                                /\ updateSettings' = rs2
                                /\ StabilizationSettings' = u.settings
                                /\ savedSettings' = u.saved
                                /\ calls' = PassCalls(u.calls)
                    ELSE /\ relayTuning' = NotRead
                         /\ updateSettings' = NotRead
                         /\ UNCHANGED <<StabilizationSettings, savedSettings>>
                         /\ calls' = PassCalls(<< >>)
    /\ dispatchState' = state
    /\ delay' = LOOP_DELAY
    /\ ticks' = IF ticks < MaxTicks THEN ticks + 1 ELSE ticks
    /\ pc' = AfterPass
    /\ UNCHANGED <<autotuneEnabled, optionalModules, startLog>>

PhasePass == Pass(FlightStatusValues, ManualControlValues, LateWake, TRUE)

Next == AutotuneInitialize \/ AutotuneStart \/ TaskEntry \/ GatedPass \/ PhasePass

Spec == Init /\ [][Next]_vars

\* The scheduler runs the task again when its vTaskDelay has expired: weak
\* fairness of the passes, up to the MaxTicks passes explored.
LiveSpec == Init /\ [][Next]_vars /\ WF_vars(GatedPass \/ PhasePass)

(***************************************************************************)
(* One uninterrupted session: the flight mode stays AUTOTUNE, the vehicle  *)
(* is armed with positive throttle until the state is AT_FINISHED and      *)
(* disarmed with zero throttle from then on, and every pass wakes on time. *)
(* The session ends with the pass that executes case AT_SET.  The          *)
(* scheduler runs the task again after each vTaskDelay: weak fairness.     *)
(***************************************************************************)
Flying == state \in {"AT_INIT"} \cup TimedStates

SessionStatus ==
    {[FlightMode |-> "AUTOTUNE", Armed |-> IF Flying THEN "ARMED" ELSE "DISARMED"]}

SessionManual ==
    {mc \in ManualControlValues : IF Flying THEN mc.Throttle > 0 ELSE mc.Throttle = 0}

SessionOver == ticks > 0 /\ dispatchState = "AT_SET"

SessionPass == ~SessionOver /\ Pass(SessionStatus, SessionManual, {}, FALSE)

SessionNext == AutotuneInitialize \/ AutotuneStart \/ TaskEntry \/ SessionPass

SessionSpec == Init /\ [][SessionNext]_vars /\ WF_vars(SessionNext)

(***************************************************************************)
(* update_stabilization_settings over varying prior settings: the task is  *)
(* about to execute case AT_SET, StabilizationSettings is a persistent     *)
(* object and holds the defaults or the gains of an earlier commit.  The   *)
(* flight mode stays AUTOTUNE, so a second session and a second commit     *)
(* follow within MaxTicks passes.                                          *)
(***************************************************************************)
PriorSettings ==
    {InitialSettings} \cup {ComputedSettings(rt, InitialSettings) : rt \in RelayTuningValues}

MathStatus == {fs \in FlightStatusValues : ~GateClosed(fs)}

MathInit ==
    /\ pc = "running"
    /\ autotuneEnabled = TRUE
    /\ optionalModules = NotRead
    /\ startLog = StartCalls(TRUE)
    /\ state = "AT_SET"
    /\ lastUpdateTime = 0
    /\ tickCount = 0
    /\ sinceEntry = 0
    /\ trail = CompleteSession
    /\ flightStatus = NotRead
    /\ manualControl = NotRead
    /\ relaySettings = NotRead
    /\ relayTuning = NotRead
    /\ updateSettings = NotRead
    /\ diffTime = NoDiff
    /\ StabilizationDesired \in
          {NormalDesired(InitialDesired, mc, InitialSettings, TRUE) :
              mc \in {m \in ManualControlValues : m.Throttle <= 0}}
    /\ StabilizationSettings \in PriorSettings
    /\ savedSettings = StabilizationSettings
    /\ dispatchState = "none"
    /\ calls = << >>
    /\ delay = 0
    /\ ticks = 0

MathPass == Pass(MathStatus, ManualControlValues, LateWake, TRUE)

MathNext == MathPass

MathSpec == MathInit /\ [][MathNext]_vars


(***************************************************************************)
(* Vocabulary of the properties                                            *)
(***************************************************************************)
RelayModeValues == {"RELAYRATE", "RELAYATTITUDE"}

\* the last step was a pass through the loop
Passed == ticks > 0
\* ... that took the gated branch / that reached the switch
GatedLast == Passed /\ dispatchState = "none"
PhaseLast == Passed /\ dispatchState # "none"

HasRelayAxis(sd) ==
    \/ sd.StabilizationMode.Roll \in RelayModeValues
    \/ sd.StabilizationMode.Pitch \in RelayModeValues

Count(seq, x) == Cardinality({k \in 1..Len(seq) : seq[k] = x})
Before(seq, x, y) ==
    \E i, j \in 1..Len(seq) : i < j /\ seq[i] = x /\ seq[j] = y

\* the step is one pass through the loop
IsPass == ticks' = ticks + 1

\* the successor of a phase along the cycle
Succ(st) ==
    CASE st = "AT_INIT"     -> "AT_START"
      [] st = "AT_START"    -> "AT_ROLL"
      [] st = "AT_ROLL"     -> "AT_PITCH"
      [] st = "AT_PITCH"    -> "AT_FINISHED"
      [] st = "AT_FINISHED" -> "AT_SET"
      [] st = "AT_SET"      -> "AT_INIT"

(***************************************************************************)
(* C1: a pass that reads a flight mode other than AUTOTUNE ends in AT_INIT *)
(* whatever the state was, and runs none of the phase logic: it does not   *)
(* reach the switch, records no timestamp, computes no elapsed time, does  *)
(* not call update_stabilization_settings and neither sets nor saves       *)
(* StabilizationSettings.                                                  *)
(***************************************************************************)
C1_GateSkipsPhaseLogic ==
    [][ (IsPass /\ flightStatus'.FlightMode # "AUTOTUNE") =>
            /\ state' = "AT_INIT"
            /\ dispatchState' = "none"
            /\ lastUpdateTime' = lastUpdateTime
            /\ diffTime' = NoDiff
            /\ StabilizationSettings' = StabilizationSettings
            /\ savedSettings' = savedSettings
            /\ Count(calls', "RelayTuningGet") = 0
            /\ Count(calls', "StabilizationSettingsSet") = 0
            /\ Count(calls', "UAVObjSave") = 0 ]_vars

\* a gated pass that interrupted the roll measurement
C1_Witness ==
    /\ GatedLast
    /\ flightStatus.FlightMode = "MANUAL"
    /\ state = "AT_INIT"
    /\ StabilizationDesired.StabilizationMode.Roll \in RelayModeValues

(***************************************************************************)
(* C2: after a pass that read a flight mode other than AUTOTUNE the        *)
(* StabilizationDesired object holds no relay mode on roll or pitch.       *)
(***************************************************************************)
C2_NoRelayAfterGatedPass ==
    GatedLast => ~HasRelayAxis(StabilizationDesired)

(***************************************************************************)
(* C3: StabilizationSettings, in memory and in durable storage, changes    *)
(* only in a pass that enters the switch in AT_SET.                        *)
(***************************************************************************)
C3_SettingsChangeOnlyInSet ==
    [][ (StabilizationSettings' # StabilizationSettings
            \/ savedSettings' # savedSettings) =>
            (IsPass /\ state = "AT_SET" /\ dispatchState' = "AT_SET") ]_vars

\* a new session started with the gains of an earlier COMMIT in place
C3_Witness ==
    /\ PhaseLast
    /\ dispatchState = "AT_INIT"
    /\ state = "AT_START"
    /\ StabilizationSettings # InitialSettings

(***************************************************************************)
(* C4: a pass that executes case AT_SET read Armed = DISARMED.             *)
(***************************************************************************)
C4_CommitOnlyWhileDisarmed ==
    (PhaseLast /\ dispatchState = "AT_SET") => flightStatus.Armed = "DISARMED"

(***************************************************************************)
(* C5 as stated: a pass in AT_START, AT_ROLL or AT_PITCH that reads the    *)
(* vehicle not armed or the throttle not positive ends in AT_INIT and      *)
(* writes no relay mode.                                                   *)
(***************************************************************************)
Unsafe == flightStatus.Armed # "ARMED" \/ manualControl.Throttle <= 0

C5_ArmThrottleGate ==
    (PhaseLast /\ dispatchState \in TimedStates /\ Unsafe) =>
        (state = "AT_INIT" /\ ~HasRelayAxis(StabilizationDesired))

(***************************************************************************)
(* C5 amended: only the flight mode is evaluated on every pass.  A pass in *)
(* AT_START, AT_ROLL or AT_PITCH that reads the vehicle not armed or the   *)
(* throttle not positive is not forced back to AT_INIT: the state stays or *)
(* moves to its successor, and a pass in AT_ROLL (AT_PITCH) still writes   *)
(* the relay mode on roll (pitch).                                         *)
(***************************************************************************)
C5_NoArmThrottleGate ==
    (PhaseLast /\ dispatchState \in TimedStates /\ Unsafe) =>
        /\ state \in {dispatchState, Succ(dispatchState)}
        /\ dispatchState = "AT_ROLL" =>
              StabilizationDesired.StabilizationMode.Roll \in RelayModeValues
        /\ dispatchState = "AT_PITCH" =>
              StabilizationDesired.StabilizationMode.Pitch \in RelayModeValues

\* relay written on roll while disarmed with zero throttle
C5_Witness ==
    /\ PhaseLast
    /\ dispatchState = "AT_ROLL"
    /\ flightStatus.Armed = "DISARMED"
    /\ manualControl.Throttle <= 0
    /\ state = "AT_ROLL"
    /\ StabilizationDesired.StabilizationMode.Roll \in RelayModeValues

(***************************************************************************)
(* C6: in the pass that executes case AT_SET, by the Behavior read:        *)
(* MEASURE leaves the object and the durable record unchanged and calls    *)
(* neither set nor save; COMPUTE sets the object to the computed gains     *)
(* once and does not save; SAVE sets the object once and then calls save   *)
(* once, after the set.                                                    *)
(***************************************************************************)
HasGains(ss, rt) ==
    LET r == AxisGains(rt, 1)
        p == AxisGains(rt, 2)
    IN  /\ ss.RollRatePID = [Kp |-> r.kp, Ki |-> r.ki]
        /\ ss.RollPI = [Kp |-> r.kp2, Ki |-> r.ki2]
        /\ ss.PitchRatePID = [Kp |-> p.kp, Ki |-> p.ki]
        /\ ss.PitchPI = [Kp |-> p.kp2, Ki |-> p.ki2]

C6_PersistencePolicy ==
    [][ (IsPass /\ dispatchState' = "AT_SET") =>
          LET sets  == Count(calls', "StabilizationSettingsSet")
              saves == Count(calls', "UAVObjSave")
              b     == updateSettings'.Behavior
          IN  /\ b = "MEASURE" =>
                    /\ StabilizationSettings' = StabilizationSettings
                    /\ savedSettings' = savedSettings
                    /\ sets = 0 /\ saves = 0
              /\ b = "COMPUTE" =>
                    /\ HasGains(StabilizationSettings', relayTuning')
                    /\ savedSettings' = savedSettings
                    /\ sets = 1 /\ saves = 0
              /\ b = "SAVE" =>
                    /\ HasGains(StabilizationSettings', relayTuning')
                    /\ sets = 1 /\ saves = 1
                    /\ Before(calls', "StabilizationSettingsSet", "UAVObjSave")
                    /\ savedSettings' \in {savedSettings, StabilizationSettings'} ]_vars

\* a COMMIT with SAVE whose save succeeded
C6_Witness ==
    /\ PhaseLast
    /\ dispatchState = "AT_SET"
    /\ updateSettings.Behavior = "SAVE"
    /\ HasGains(StabilizationSettings, relayTuning)
    /\ savedSettings = StabilizationSettings
    /\ savedSettings # InitialSettings

(***************************************************************************)
(* C7: state always holds one of the six phases, and every step leaves it  *)
(* unchanged, moves it to its successor along                              *)
(* INIT, START, ROLL, PITCH, FINISHED, SET, INIT, or resets it to AT_INIT. *)
(***************************************************************************)
C7_PhaseOrder ==
    [][ /\ state' \in AUTOTUNE_STATE
        /\ state' \in {state, Succ(state), "AT_INIT"} ]_vars

\* a whole cycle was walked
C7_Witness ==
    /\ PhaseLast
    /\ dispatchState = "AT_SET"
    /\ state = "AT_INIT"

(***************************************************************************)
(* C9: AT_START is not left for AT_ROLL before PREPARE_TIME ticks have     *)
(* passed since the entry timestamp was recorded, and AT_ROLL and AT_PITCH *)
(* are not left for the next phase before MEAURE_TIME ticks have passed.   *)
(***************************************************************************)
C9_TimingLowerBounds ==
    [][ /\ (state = "AT_START" /\ state' = "AT_ROLL") => sinceEntry >= PREPARE_TIME
        /\ (state = "AT_ROLL" /\ state' = "AT_PITCH") => sinceEntry >= MEAURE_TIME
        /\ (state = "AT_PITCH" /\ state' = "AT_FINISHED") => sinceEntry >= MEAURE_TIME
      ]_vars

\* the roll measurement ended, after a pass that found it not yet over
C9_Witness ==
    /\ PhaseLast
    /\ dispatchState = "AT_ROLL"
    /\ state = "AT_PITCH"
    /\ diffTime = MEAURE_TIME + LOOP_DELAY

(***************************************************************************)
(* C10: every record a pass writes has yaw in RATE mode with the value     *)
(* manual yaw times the yaw manual rate, in every phase.                   *)
(***************************************************************************)
C10_YawPassthrough ==
    PhaseLast =>
        /\ StabilizationDesired.StabilizationMode.Yaw = "RATE"
        /\ StabilizationDesired.Yaw =
              manualControl.Yaw * StabilizationSettings.ManualRate.Yaw

\* a record written during the pitch measurement, stick off centre
C10_Witness ==
    /\ PhaseLast
    /\ dispatchState = "AT_PITCH"
    /\ manualControl.Yaw # 0
    /\ StabilizationDesired.StabilizationMode.Pitch \in RelayModeValues
    /\ StabilizationDesired.Yaw = manualControl.Yaw * InitialSettings.ManualRate.Yaw


(***************************************************************************)
(* C8: in a session that stays in AUTOTUNE, armed with positive throttle   *)
(* until AT_FINISHED and then disarmed with zero throttle, the state only  *)
(* ever moves to its successor, and under fair scheduling the running task *)
(* reaches AT_START, AT_ROLL, AT_PITCH, AT_FINISHED and AT_SET in turn and *)
(* returns from AT_SET to AT_INIT.                                         *)
(***************************************************************************)
C8_SessionCompletes ==
    /\ [][state' \in {state, Succ(state)}]_vars
    /\ (pc = "running" /\ state = "AT_INIT" /\ ticks = 0) ~> (state = "AT_START")
    /\ (state = "AT_START") ~> (state = "AT_ROLL")
    /\ (state = "AT_ROLL") ~> (state = "AT_PITCH")
    /\ (state = "AT_PITCH") ~> (state = "AT_FINISHED")
    /\ (state = "AT_FINISHED") ~> (state = "AT_SET")
    /\ (state = "AT_SET") ~> (SessionOver /\ state = "AT_INIT")

\* the session is over: the commit pass ran, after both measurements
C8_Witness ==
    /\ SessionOver
    /\ state = "AT_INIT"
    /\ flightStatus.Armed = "DISARMED"
    /\ manualControl.Throttle = 0
    /\ ticks = MaxTicks

(***************************************************************************)
(* C11: the record written by a pass that dispatched on AT_ROLL has the    *)
(* roll axis in RELAYRATE when RelayTuningSettings.Mode is RATE and in     *)
(* RELAYATTITUDE otherwise, and pitch in the normal mode (RATE resp.       *)
(* ATTITUDE); the record written by a pass that dispatched on AT_PITCH has *)
(* pitch in that relay mode and roll in the normal mode.                   *)
(***************************************************************************)
ExpectedRelay(rs) == IF rs.Mode = "RATE" THEN "RELAYRATE" ELSE "RELAYATTITUDE"
ExpectedNormal(rs) == IF rs.Mode = "RATE" THEN "RATE" ELSE "ATTITUDE"

C11_RelayAxisPerPhase ==
    /\ (PhaseLast /\ dispatchState = "AT_ROLL") =>
          /\ StabilizationDesired.StabilizationMode.Roll = ExpectedRelay(relaySettings)
          /\ StabilizationDesired.StabilizationMode.Pitch = ExpectedNormal(relaySettings)
    /\ (PhaseLast /\ dispatchState = "AT_PITCH") =>
          /\ StabilizationDesired.StabilizationMode.Pitch = ExpectedRelay(relaySettings)
          /\ StabilizationDesired.StabilizationMode.Roll = ExpectedNormal(relaySettings)

\* a pitch measurement pass in attitude mode, after the roll measurement
C11_Witness ==
    /\ PhaseLast
    /\ dispatchState = "AT_PITCH"
    /\ relaySettings.Mode = "ATTITUDE"
    /\ StabilizationDesired.StabilizationMode.Pitch = "RELAYATTITUDE"
    /\ StabilizationDesired.StabilizationMode.Roll = "ATTITUDE"

(***************************************************************************)
(* C12: the record written by a pass that dispatched on AT_INIT, AT_START, *)
(* AT_FINISHED or AT_SET has roll and pitch both in the normal mode        *)
(* selected by RelayTuningSettings.Mode, never in a relay mode.            *)
(***************************************************************************)
C12_NoRelayOutsideMeasurement ==
    (PhaseLast /\ dispatchState \in {"AT_INIT", "AT_START", "AT_FINISHED", "AT_SET"}) =>
        /\ StabilizationDesired.StabilizationMode.Roll = ExpectedNormal(relaySettings)
        /\ StabilizationDesired.StabilizationMode.Pitch = ExpectedNormal(relaySettings)
        /\ ~HasRelayAxis(StabilizationDesired)

\* a pass waiting in AT_START in rate mode
C12_Witness ==
    /\ PhaseLast
    /\ dispatchState = "AT_START"
    /\ state = "AT_START"
    /\ relaySettings.Mode = "RATE"
    /\ StabilizationDesired.StabilizationMode.Roll = "RATE"
    /\ StabilizationDesired.StabilizationMode.Pitch = "RATE"

(***************************************************************************)
(* C13: a pass that dispatches on AT_INIT moves to AT_START exactly when   *)
(* it read Armed = ARMED and a throttle above zero, and otherwise stays in *)
(* AT_INIT; a pass that dispatches on AT_FINISHED moves to AT_SET exactly  *)
(* when it read Armed = DISARMED and a throttle of zero or less, and       *)
(* otherwise stays in AT_FINISHED.  Armed = ARMING satisfies neither.      *)
(***************************************************************************)
C13_ActivationAndCommitGuards ==
    [][ IsPass =>
          LET armed    == flightStatus'.Armed
              throttle == StabilizationDesired'.Throttle
          IN  /\ dispatchState' = "AT_INIT" =>
                    state' = IF armed = "ARMED" /\ throttle > 0
                             THEN "AT_START" ELSE "AT_INIT"
              /\ dispatchState' = "AT_FINISHED" =>
                    state' = IF armed = "DISARMED" /\ throttle <= 0
                             THEN "AT_SET" ELSE "AT_FINISHED"
              /\ (state # "AT_START" /\ state' = "AT_START") =>
                    dispatchState' = "AT_INIT"
              /\ state' = "AT_SET" => dispatchState' = "AT_FINISHED" ]_vars

\* a pass held in AT_FINISHED by Armed = ARMING although the throttle is zero
C13_Witness ==
    /\ PhaseLast
    /\ dispatchState = "AT_FINISHED"
    /\ state = "AT_FINISHED"
    /\ flightStatus.Armed = "ARMING"
    /\ StabilizationDesired.Throttle <= 0

(***************************************************************************)
(* C14: a pass that executes case AT_SET ends with state AT_INIT for every *)
(* Behavior and whether or not the save succeeded, and the next pass that  *)
(* reads AUTOTUNE dispatches on AT_INIT and moves to AT_START when it      *)
(* reads Armed = ARMED and a throttle above zero.                          *)
(***************************************************************************)
C14_CommitReturnsToInit ==
    [][ IsPass =>
          /\ dispatchState' = "AT_SET" => state' = "AT_INIT"
          /\ (dispatchState = "AT_SET" /\ flightStatus'.FlightMode = "AUTOTUNE") =>
                /\ dispatchState' = "AT_INIT"
                /\ (flightStatus'.Armed = "ARMED" /\ manualControl'.Throttle > 0) =>
                      state' = "AT_START" ]_vars

\* the ninth pass starts a second session right after a commit: eight passes
\* (two in each measurement phase) are the fewest that change the settings
C14_Witness ==
    /\ PhaseLast
    /\ ticks = 9
    /\ dispatchState = "AT_INIT"
    /\ state = "AT_START"
    /\ flightStatus.FlightMode = "AUTOTUNE"
    /\ StabilizationSettings # InitialSettings

(***************************************************************************)
(* C15: every pass through the loop calls PIOS_WDG_UpdateFlag exactly      *)
(* once, as its first call: the gated pass, the pass that executes case    *)
(* AT_SET and every other pass.                                            *)
(***************************************************************************)
C15_WatchdogOncePerPass ==
    [][ IsPass =>
          /\ Count(calls', "PIOS_WDG_UpdateFlag") = 1
          /\ calls'[1] = "PIOS_WDG_UpdateFlag" ]_vars

\* a gated pass after a commit has changed the settings
C15_Witness ==
    /\ GatedLast
    /\ Count(calls, "PIOS_WDG_UpdateFlag") = 1
    /\ StabilizationSettings # InitialSettings

(***************************************************************************)
(* C16: a pass calls StabilizationDesiredSet at most once, and every read  *)
(* of the pass (FlightStatusGet, StabilizationDesiredGet,                  *)
(* StabilizationSettingsGet, ManualControlSettingsGet,                     *)
(* ManualControlCommandGet, RelayTuningSettingsGet and, in the AT_SET      *)
(* pass, the reads of update_stabilization_settings) comes before it.      *)
(***************************************************************************)
ReadCalls ==
    {"FlightStatusGet", "StabilizationDesiredGet", "StabilizationSettingsGet",
     "ManualControlSettingsGet", "ManualControlCommandGet",
     "RelayTuningSettingsGet", "RelayTuningGet"}

C16_SingleWriteAfterReads ==
    [][ IsPass =>
          /\ Count(calls', "StabilizationDesiredSet") <= 1
          /\ \A i, j \in 1..Len(calls') :
                (calls'[i] = "StabilizationDesiredSet" /\ calls'[j] \in ReadCalls)
                    => j < i ]_vars

\* the AT_SET pass with COMPUTE: its three reads precede the one write
C16_Witness ==
    /\ PhaseLast
    /\ dispatchState = "AT_SET"
    /\ updateSettings.Behavior = "COMPUTE"
    /\ Count(calls, "StabilizationDesiredSet") = 1
    /\ Before(calls, "RelayTuningGet", "StabilizationDesiredSet")
    /\ Count(calls, "StabilizationSettingsGet") = 2

(***************************************************************************)
(* C17: a pass that reads a flight mode other than AUTOTUNE ends in        *)
(* AT_INIT whatever the phase was, and the first pass that reads AUTOTUNE  *)
(* again dispatches on AT_INIT, records the current tick count as the      *)
(* entry timestamp and computes no elapsed time.                           *)
(***************************************************************************)
C17_CancellationIsTotal ==
    [][ IsPass =>
          /\ flightStatus'.FlightMode # "AUTOTUNE" => state' = "AT_INIT"
          /\ (GatedLast /\ flightStatus'.FlightMode = "AUTOTUNE") =>
                /\ dispatchState' = "AT_INIT"
                /\ state' \in {"AT_INIT", "AT_START"}
                /\ lastUpdateTime' = tickCount
                /\ diffTime' = NoDiff
                /\ sinceEntry' <= MEAURE_TIME ]_vars

\* a pass in AT_INIT within the first five passes and after a late wake-up:
\* a session had reached a timed phase and was cancelled
C17_Witness ==
    /\ PhaseLast
    /\ ticks <= 5
    /\ dispatchState = "AT_INIT"
    /\ tickCount > MEAURE_TIME
    /\ sinceEntry = LOOP_DELAY

(***************************************************************************)
(* C18: when the save fails in an AT_SET pass with Behavior SAVE,          *)
(* UAVObjSave is called once in that pass, StabilizationSettings holds the *)
(* computed gains, the saved copy is the old one and the state is AT_INIT; *)
(* no pass other than an AT_SET pass calls UAVObjSave or changes           *)
(* StabilizationSettings or its saved copy.                                *)
(***************************************************************************)
C18_FailedSaveNotRetried ==
    [][ IsPass =>
          /\ ( /\ dispatchState' = "AT_SET"
               /\ updateSettings'.Behavior = "SAVE"
               /\ savedSettings' # StabilizationSettings' ) =>
                /\ Count(calls', "UAVObjSave") = 1
                /\ Count(calls', "StabilizationSettingsSet") = 1
                /\ HasGains(StabilizationSettings', relayTuning')
                /\ savedSettings' = savedSettings
                /\ state' = "AT_INIT"
          /\ dispatchState' # "AT_SET" =>
                /\ Count(calls', "UAVObjSave") = 0
                /\ StabilizationSettings' = StabilizationSettings
                /\ savedSettings' = savedSettings ]_vars

\* an AT_SET pass with SAVE whose save failed
C18_Witness ==
    /\ PhaseLast
    /\ dispatchState = "AT_SET"
    /\ state = "AT_INIT"
    /\ updateSettings.Behavior = "SAVE"
    /\ Count(calls, "UAVObjSave") = 1
    /\ HasGains(StabilizationSettings, relayTuning)
    /\ savedSettings = InitialSettings
    /\ savedSettings # StabilizationSettings

(***************************************************************************)
(* C19: the gains a commit writes.  Roll and pitch are computed with the   *)
(* same constants: 1/3 for the rate (inner) loop, 1/5 for the attitude     *)
(* (outer) loop.                                                           *)
(***************************************************************************)
\* three decimals, in units of 1/Scale
Tol == Scale \div 1000
Near(x, y) == x - y <= Tol /\ y - x <= Tol

\* the measurement of the example: roll Tu = 500 ms, a = 0.3; pitch
\* Tu = 400 ms, a = 0.25
ExampleTuning == [Period |-> <<500, 400>>, Gain |-> <<3000, 2500>>]

\* the last pass executed case AT_SET on the example and set the settings
ExampleCommitted ==
    /\ PhaseLast
    /\ dispatchState = "AT_SET"
    /\ relayTuning = ExampleTuning
    /\ updateSettings.Behavior # "MEASURE"

\* C19 as stated: with Tu = 500 and a = 0.3 the roll gains are kp_rate about
\* 1.415, ki_rate about 1.948, kp_att about 1.396 and ki_att about 0.650
\* (outer-loop crossover wc/3).
C19_RollExampleAsStated ==
    ExampleCommitted =>
        /\ Near(StabilizationSettings.RollRatePID.Kp, 14150)
        /\ Near(StabilizationSettings.RollRatePID.Ki, 19480)
        /\ Near(StabilizationSettings.RollPI.Kp, 13960)
        /\ Near(StabilizationSettings.RollPI.Ki, 6500)

\* C19 amended: with Tu = 500 and a = 0.3 the roll gains are kp_rate about
\* 1.415, ki_rate about 1.975, kp_att about 0.838 and ki_att about 0.140
\* (outer-loop crossover wc/5), and with Tu = 400 and a = 0.25 the pitch
\* gains are kp_rate about 1.698 (kpu/3, not kpu/5), ki_rate about 2.963,
\* kp_att about 1.047 and ki_att about 0.219.
C19_GainsOfExample ==
    ExampleCommitted =>
        /\ Near(StabilizationSettings.RollRatePID.Kp, 14147)
        /\ Near(StabilizationSettings.RollRatePID.Ki, 19753)
        /\ Near(StabilizationSettings.RollPI.Kp, 8378)
        /\ Near(StabilizationSettings.RollPI.Ki, 1404)
        /\ Near(StabilizationSettings.PitchRatePID.Kp, 16977)
        /\ Near(StabilizationSettings.PitchRatePID.Ki, 29630)
        /\ Near(StabilizationSettings.PitchPI.Kp, 10472)
        /\ Near(StabilizationSettings.PitchPI.Ki, 2193)

\* a commit on the example measurement with COMPUTE
C19_Witness ==
    /\ ExampleCommitted
    /\ updateSettings.Behavior = "COMPUTE"
    /\ StabilizationSettings.RollPI.Kp < StabilizationSettings.RollRatePID.Kp
    /\ StabilizationSettings # InitialSettings

(***************************************************************************)
(* C20: the gains a commit writes for roll and pitch are those computed    *)
(* from the RelayTuning measurement it read, whatever StabilizationSettings*)
(* held before: the defaults or the gains of an earlier session, of the    *)
(* same or of another measurement.  A commit that reads the measurement    *)
(* whose gains the settings already hold leaves them as they are.          *)
(***************************************************************************)
Gains(ss) == <<ss.RollRatePID, ss.RollPI, ss.PitchRatePID, ss.PitchPI>>

C20_GainsDependOnMeasurementOnly ==
    [][ ( /\ IsPass
          /\ dispatchState' = "AT_SET"
          /\ updateSettings'.Behavior # "MEASURE" ) =>
            /\ \A prior \in PriorSettings :
                  Gains(StabilizationSettings') =
                      Gains(ComputedSettings(relayTuning', prior))
            /\ \A rt \in RelayTuningValues :
                  (relayTuning' = rt /\ HasGains(StabilizationSettings, rt)) =>
                      Gains(StabilizationSettings') = Gains(StabilizationSettings) ]_vars

\* the second commit of a run that began with the gains of an earlier
\* commit: it read the other measurement and replaced them
C20_Witness ==
    /\ PhaseLast
    /\ ticks = 9
    /\ dispatchState = "AT_SET"
    /\ updateSettings.Behavior = "COMPUTE"
    /\ savedSettings # InitialSettings
    /\ HasGains(StabilizationSettings, relayTuning)
    /\ ~HasGains(savedSettings, relayTuning)

(***************************************************************************)
(* C21: once the task runs it never returns, and from every state it       *)
(* completes another pass whatever it read and whether or not a save       *)
(* succeeded: each pass ends in a vTaskDelay of GATE_DELAY or LOOP_DELAY   *)
(* ticks and is followed by the next one (up to the MaxTicks passes        *)
(* explored).                                                              *)
(***************************************************************************)
C21_TaskNeverStops ==
    /\ [][ pc = "running" =>
             /\ pc' = "running"
             /\ IsPass
             /\ delay' \in {GATE_DELAY, LOOP_DELAY}
             /\ calls'[Len(calls')] = "vTaskDelay" ]_vars
    /\ (pc = "running") ~> (pc = "running" /\ ticks = MaxTicks)

\* the task still runs after MaxTicks passes that include a commit whose
\* settings did not reach the saved copy
C21_Witness ==
    /\ pc = "running"
    /\ ticks = MaxTicks
    /\ savedSettings = InitialSettings
    /\ StabilizationSettings # InitialSettings
    /\ delay = LOOP_DELAY

(***************************************************************************)
(* C22: autotuneEnabled is assigned by AutotuneInitialize only: TRUE in a  *)
(* built-in build, otherwise TRUE exactly when the optional-module element *)
(* read from HwSettings is ENABLED; no later step changes it.              *)
(* AutotuneStart creates the task and registers it with the task monitor   *)
(* and the watchdog, each once, exactly when the flag is TRUE, and no      *)
(* other step makes these calls; with the flag FALSE the task never runs   *)
(* and no pass is made.                                                    *)
(***************************************************************************)
C22_StaticEnablement ==
    [][ /\ pc = "boot" =>
              autotuneEnabled' = IF optionalModules' = NotRead
                                 THEN TRUE
                                 ELSE optionalModules'.Autotune = "ENABLED"
        /\ pc # "boot" => autotuneEnabled' = autotuneEnabled
        /\ pc = "initialized" =>
              /\ autotuneEnabled =>
                    /\ Len(startLog') = 3
                    /\ Count(startLog', "xTaskCreate") = 1
                    /\ Count(startLog', "PIOS_TASK_MONITOR_RegisterTask") = 1
                    /\ Count(startLog', "PIOS_WDG_RegisterFlag") = 1
              /\ ~autotuneEnabled => startLog' = << >>
        /\ pc # "initialized" => startLog' = startLog
        /\ (pc' = "running" \/ IsPass) => autotuneEnabled ]_vars

\* started with the flag FALSE: nothing was created or registered
C22_Witness ==
    /\ pc = "started"
    /\ ~autotuneEnabled
    /\ startLog = << >>
    /\ ticks = 0

(***************************************************************************)
(* C23: a pass in AT_START whose elapsed time is PREPARE_TIME or more      *)
(* moves to AT_ROLL, and a pass in AT_ROLL or AT_PITCH whose elapsed time  *)
(* is MEAURE_TIME or more moves to AT_PITCH resp. AT_FINISHED; so does a   *)
(* pass whose elapsed time equals the threshold.                           *)
(***************************************************************************)
C23_ExitAtThreshold ==
    [][ IsPass =>
          /\ (dispatchState' = "AT_START" /\ diffTime' >= PREPARE_TIME) =>
                state' = "AT_ROLL"
          /\ (dispatchState' = "AT_ROLL" /\ diffTime' >= MEAURE_TIME) =>
                state' = "AT_PITCH"
          /\ (dispatchState' = "AT_PITCH" /\ diffTime' >= MEAURE_TIME) =>
                state' = "AT_FINISHED" ]_vars

(***************************************************************************)
(* C24: every pass through the loop writes StabilizationDesired once,      *)
(* whatever the phase: no pass ends without StabilizationDesiredSet.       *)
(***************************************************************************)
C24_WrittenEveryPass ==
    [][ IsPass => Count(calls', "StabilizationDesiredSet") = 1 ]_vars

(***************************************************************************)
(* C25: every pass through the loop, the gated one as well as each         *)
(* phase's, ends with the same delay of LOOP_DELAY ticks.                  *)
(***************************************************************************)
C25_FixedTickPeriod ==
    [][ IsPass => delay' = LOOP_DELAY ]_vars

(***************************************************************************)
(* C26: in every record a pass writes the throttle is the manual throttle  *)
(* and the roll and pitch values are the manual roll and pitch times the   *)
(* manual rate (Mode RATE) or times the maximum angle (otherwise), also    *)
(* for the axis that AT_ROLL or AT_PITCH puts in a relay mode.             *)
(***************************************************************************)
C26_PilotKeepsAuthority ==
    PhaseLast =>
        LET ss == StabilizationSettings
            r  == relaySettings.Mode = "RATE"
        IN  /\ StabilizationDesired.Throttle = manualControl.Throttle
            /\ StabilizationDesired.Roll =
                  manualControl.Roll * (IF r THEN ss.ManualRate.Roll ELSE ss.RollMax)
            /\ StabilizationDesired.Pitch =
                  manualControl.Pitch * (IF r THEN ss.ManualRate.Pitch ELSE ss.PitchMax)

\* a pitch measurement pass in attitude mode with the pitch stick off centre
C26_Witness ==
    /\ PhaseLast
    /\ dispatchState = "AT_PITCH"
    /\ relaySettings.Mode = "ATTITUDE"
    /\ StabilizationDesired.StabilizationMode.Pitch = "RELAYATTITUDE"
    /\ manualControl.Pitch # 0
    /\ StabilizationDesired.Pitch = manualControl.Pitch * InitialSettings.PitchMax

(***************************************************************************)
(* C27: the StabilizationDesired record never has roll and pitch in a      *)
(* relay mode at the same time, also after the pass that moves from        *)
(* AT_ROLL to AT_PITCH and after the first pass in AT_PITCH.               *)
(***************************************************************************)
C27_OneRelayAxisAtMost ==
    ~ ( /\ StabilizationDesired.StabilizationMode.Roll \in RelayModeValues
        /\ StabilizationDesired.StabilizationMode.Pitch \in RelayModeValues )

\* the pass that ends the roll measurement: roll still in relay mode, pitch not
C27_Witness ==
    /\ PhaseLast
    /\ dispatchState = "AT_ROLL"
    /\ state = "AT_PITCH"
    /\ StabilizationDesired.StabilizationMode.Roll \in RelayModeValues
    /\ StabilizationDesired.StabilizationMode.Pitch \notin RelayModeValues

(***************************************************************************)
(* C28: a pass that sets or saves StabilizationSettings comes at the end   *)
(* of a complete session with no gated pass in it: a pass in AT_INIT that  *)
(* read ARMED and a positive throttle, AT_START, AT_ROLL and AT_PITCH each *)
(* left after more than its threshold of true time, and a pass in          *)
(* AT_FINISHED that read DISARMED and no throttle.  After a gated pass the *)
(* trail is empty, whatever the phase was, so nothing of a cancelled       *)
(* session counts towards a commit.                                        *)
(***************************************************************************)
C28_CommitEndsCompleteSession ==
    [][ IsPass =>
          /\ ( \/ Count(calls', "StabilizationSettingsSet") > 0
               \/ Count(calls', "UAVObjSave") > 0
               \/ Count(calls', "RelayTuningGet") > 0
               \/ StabilizationSettings' # StabilizationSettings
               \/ savedSettings' # savedSettings ) =>
                /\ trail = CompleteSession
                /\ dispatchState' = "AT_SET"
          /\ flightStatus'.FlightMode # "AUTOTUNE" =>
                /\ trail' = << >>
                /\ state' = "AT_INIT"
                /\ StabilizationSettings' = StabilizationSettings
                /\ savedSettings' = savedSettings ]_vars

\* a commit that set and saved the gains at the end of a complete session
C28_Witness ==
    /\ PhaseLast
    /\ dispatchState = "AT_SET"
    /\ Len(trail) = Len(CompleteSession) + 1
    /\ SubSeq(trail, 1, Len(CompleteSession)) = CompleteSession
    /\ Count(calls, "UAVObjSave") = 1
    /\ savedSettings = StabilizationSettings
    /\ StabilizationSettings # InitialSettings

(***************************************************************************)
(* C29: the elapsed time a pass in AT_START, AT_ROLL or AT_PITCH computes  *)
(* is the true time since the entry timestamp modulo the width of the tick *)
(* counter, never negative, also when the counter has wrapped since the    *)
(* timestamp; so the phase is left only after more than its threshold of   *)
(* true time.                                                              *)
(***************************************************************************)
C29_ElapsedModuloCounterWidth ==
    [][ (IsPass /\ dispatchState' \in TimedStates) =>
          /\ diffTime' = sinceEntry % TickWrap
          /\ diffTime' >= 0
          /\ tickCount < lastUpdateTime =>
                diffTime' = tickCount + TickWrap - lastUpdateTime
          /\ state' # dispatchState' =>
                /\ diffTime' > Threshold(dispatchState')
                /\ sinceEntry > Threshold(dispatchState') ]_vars

\* a measurement left by a pass after the counter wrapped during it: the
\* tick count it read is smaller than the elapsed time it computed
C29_Witness ==
    /\ PhaseLast
    /\ dispatchState \in {"AT_ROLL", "AT_PITCH"}
    /\ state # dispatchState
    /\ diffTime > MEAURE_TIME
    /\ lastUpdateTime < diffTime

(***************************************************************************)
(* C30: a pass in AT_ROLL or AT_PITCH that reads another Mode than the     *)
(* pass before it in the same phase writes the relay mode and the normal   *)
(* mode of the Mode it read itself, and neither restarts the session nor   *)
(* the timer; the AT_SET pass reads RelayTuningSettings again inside       *)
(* update_stabilization_settings and sets and saves according to the       *)
(* Behavior of that read.                                                  *)
(***************************************************************************)
C30_SettingsReadOnEveryUse ==
    [][ IsPass =>
          /\ ( /\ dispatchState' \in {"AT_ROLL", "AT_PITCH"}
               /\ dispatchState = dispatchState'
               /\ relaySettings'.Mode # relaySettings.Mode ) =>
                LET sm   == StabilizationDesired'.StabilizationMode
                    mine == IF dispatchState' = "AT_ROLL" THEN sm.Roll ELSE sm.Pitch
                    other == IF dispatchState' = "AT_ROLL" THEN sm.Pitch ELSE sm.Roll
                IN  /\ mine = ExpectedRelay(relaySettings')
                    /\ other = ExpectedNormal(relaySettings')
                    /\ mine # (IF dispatchState = "AT_ROLL"
                               THEN StabilizationDesired.StabilizationMode.Roll
                               ELSE StabilizationDesired.StabilizationMode.Pitch)
                    /\ state' \in {dispatchState', Succ(dispatchState')}
                    /\ diffTime' = sinceEntry % TickWrap
                    /\ diffTime' > diffTime
                    /\ state' = dispatchState' => lastUpdateTime' = lastUpdateTime
          /\ dispatchState' = "AT_SET" =>
                /\ Count(calls', "RelayTuningSettingsGet") = 2
                /\ Count(calls', "StabilizationSettingsSet") =
                      (IF updateSettings'.Behavior = "MEASURE" THEN 0 ELSE 1)
                /\ Count(calls', "UAVObjSave") =
                      (IF updateSettings'.Behavior = "SAVE" THEN 1 ELSE 0) ]_vars

\* the second pass of the roll measurement, which read ATTITUDE, the timer
\* running on from the first
C30_Witness ==
    /\ PhaseLast
    /\ dispatchState = "AT_ROLL"
    /\ state = "AT_ROLL"
    /\ diffTime = 2 * LOOP_DELAY
    /\ relaySettings.Mode = "ATTITUDE"
    /\ StabilizationDesired.StabilizationMode.Roll = "RELAYATTITUDE"
    /\ StabilizationDesired.StabilizationMode.Pitch = "ATTITUDE"

====
